---------------------------- MODULE Spec2Model ----------------------------
(***************************************************************************)
(* Model of input_latency.cpp: a single-threaded tool that opens an evdev  *)
(* device, polls it, reads batches of input_event records, samples the     *)
(* latency of each measurable record and prints rolling and final          *)
(* statistics.  The only asynchronous actor is the SIGINT handler, which   *)
(* sets g_stop.                                                            *)
(*                                                                         *)
(* Representation choices.                                                 *)
(*  - Command-line arguments are sequences of one-character strings, so    *)
(*    that string comparison and std::stoi work on the characters.         *)
(*  - In the specifications of runs (Spec, LiveSpec, RollSpec, TwinSpec)   *)
(*    a double is the rational number it stands for, a record [num, den]   *)
(*    in lowest terms                                                      *)
(*    with den > 0: their properties are about which samples are taken and *)
(*    reported, and latencies_us holds such rationals, in microseconds.    *)
(*    The rounding of double arithmetic is modelled in the section         *)
(*    binary64, which the specification of the statistics (StatsSpec)      *)
(*    uses: its properties are about the values that are computed.         *)
(*  - read fills evbuf with records that the kernel chose, and the program  *)
(*    looks at evbuf[i] in iteration i of the for loop only.  The model    *)
(*    keeps the number of records of the batch and draws the content of a  *)
(*    record when the loop reaches it: ev is then that record.             *)
(*  - Timestamps are non-negative and far below 2^64 ns, so the uint64_t   *)
(*    arithmetic of ts_to_ns / tv_to_ns does not wrap in the model.        *)
(***************************************************************************)
EXTENDS Integers, Sequences, FiniteSets, TLC

VARIABLES
    argv,             \* the command line, argv[1] is the program name
    pc,               \* position of main()
    exit,             \* "running", "exit0", "exit1" or "abort"
    limit,            \* int limit
    quiet,            \* bool quiet
    fd,               \* "none", "open", "failed" or "closed"
    closeCalls,       \* number of close(fd) calls made
    g_stop,           \* the atomic stop flag
    revents,          \* pfd.revents after the last poll
    cnt,              \* number of whole records in evbuf
    idx,              \* loop index i of the for loop over evbuf
    ev,               \* the record evbuf[i] being processed
    now_ns,           \* last CLOCK_MONOTONIC reading
    latencies_us,     \* the accumulator
    total_events,
    measured_events,
    out,              \* what was written to standard output, in order
    err,              \* what was written to standard error, in order
    iter,             \* number of poll() calls made so far
    delivered,        \* whole records returned by all successful reads
    pollsSinceStop,   \* poll() calls made with g_stop already set
    batchesSinceStop, \* successful reads made with g_stop already set
    twin              \* a second run of the program next to this one, where
                      \* two runs are compared (TwinSpec); NoTwin elsewhere

\* The state of one run of the program
runVars == <<argv, pc, exit, limit, quiet, fd, closeCalls, g_stop, revents,
             cnt, idx, ev, now_ns, latencies_us, total_events,
             measured_events, out, err, iter, delivered, pollsSinceStop,
             batchesSinceStop>>

vars == <<runVars, twin>>

-----------------------------------------------------------------------------
(* Bounds of the model *)

\* poll() calls explored per run
MaxIter == 3
\* records delivered by all reads of one run
MaxEvents == 2

-----------------------------------------------------------------------------
(* Program constants *)

BUF_EV == 64
SIZEOF_INPUT_EVENT == 24
INT_MAX == 2147483647
ROLLING_EVERY == 50

EV_SYN == 0
EV_KEY == 1
EV_REL == 2
EV_ABS == 3
EV_MSC == 4
EV_SW == 5

\* ev while no record is being looked at
NoEvent == [type |-> EV_SYN, time |-> [tv_sec |-> 0, tv_usec |-> 0]]

-----------------------------------------------------------------------------
(* Command lines *)

PROG == <<"i", "l">>
DEV == <<"/", "d", "e", "v">>
LIMIT == <<"-", "-", "l", "i", "m", "i", "t">>
QUIET == <<"-", "-", "q", "u", "i", "e", "t">>

Argvs ==
    { <<PROG>>,
      <<PROG, DEV>>,
      <<PROG, DEV, QUIET>>,
      <<PROG, DEV, LIMIT, <<"1">>>>,
      <<PROG, DEV, LIMIT, <<"2">>, QUIET>>,
      <<PROG, DEV, LIMIT, <<"-", "1">>>>,
      <<PROG, DEV, LIMIT>>,
      <<PROG, DEV, LIMIT, <<"a", "b", "c">>>>,
      <<PROG, DEV, LIMIT, <<"9", "9", "9", "9", "9", "9", "9", "9", "9", "9", "9">>>>,
      <<PROG, DEV, <<"-", "-", "b", "o", "g", "u", "s">>>>,
      <<PROG, DEV, QUIET, <<"x">>>> }

Digits == <<"0", "1", "2", "3", "4", "5", "6", "7", "8", "9">>

IsDigit(c) == \E d \in 1..10 : Digits[d] = c

DigitVal(c) == (CHOOSE d \in 1..10 : Digits[d] = c) - 1

IsSpace(c) == c \in {" ", "\t", "\n"}

\* Accumulates the decimal digits of s from position k on; acc = -1 once the
\* magnitude has left the range of int.
RECURSIVE StoiDigits(_, _, _)
StoiDigits(s, k, acc) ==
    IF k > Len(s) \/ ~IsDigit(s[k]) THEN acc
    ELSE IF acc = -1 \/ acc > (INT_MAX - DigitVal(s[k])) \div 10
         THEN StoiDigits(s, k + 1, -1)
         ELSE StoiDigits(s, k + 1, acc * 10 + DigitVal(s[k]))

RECURSIVE SkipSpace(_, _)
SkipSpace(s, k) == IF k <= Len(s) /\ IsSpace(s[k]) THEN SkipSpace(s, k + 1) ELSE k

\* std::stoi: leading whitespace, an optional sign, then decimal digits; what
\* follows the digits is ignored.  No digit: std::invalid_argument; a value
\* outside int: std::out_of_range.
stoi(s) ==
    LET k0 == SkipSpace(s, 1)
        signed == k0 <= Len(s) /\ s[k0] \in {"+", "-"}
        neg == k0 <= Len(s) /\ s[k0] = "-"
        k1 == IF signed THEN k0 + 1 ELSE k0
        mag == StoiDigits(s, k1, 0)
    IN  IF k1 > Len(s) \/ ~IsDigit(s[k1])
        THEN [ok |-> FALSE, exc |-> "invalid_argument", val |-> 0]
        ELSE IF mag = -1
        THEN [ok |-> FALSE, exc |-> "out_of_range", val |-> 0]
        ELSE [ok |-> TRUE, exc |-> "none", val |-> IF neg THEN 0 - mag ELSE mag]

\* The argument loop of main, from C index i (argv[i] is a[i + 1]).
RECURSIVE ParseFrom(_, _, _, _)
ParseFrom(a, i, lim, q) ==
    LET argc == Len(a) IN
    IF ~(i < argc) THEN [status |-> "ok", limit |-> lim, quiet |-> q]
    ELSE IF a[i + 1] = LIMIT /\ i + 1 < argc
    THEN LET r == stoi(a[i + 2]) IN
         IF r.ok THEN ParseFrom(a, i + 2, r.val, q)
         ELSE [status |-> "throw", limit |-> lim, quiet |-> q]
    ELSE IF a[i + 1] = QUIET THEN ParseFrom(a, i + 1, lim, TRUE)
    ELSE [status |-> "unknown", limit |-> lim, quiet |-> q]

-----------------------------------------------------------------------------

\* Where no second run is followed
NoTwin == [turn |-> "alone"]

\* The state of a run when main is entered, but for its command line
InitRun ==
    /\ pc = "main"
    /\ exit = "running"
    /\ limit = 0
    /\ quiet = FALSE
    /\ fd = "none"
    /\ closeCalls = 0
    /\ g_stop = FALSE
    /\ revents = {}
    /\ cnt = 0
    /\ idx = 0
    /\ ev = NoEvent
    /\ now_ns = 0
    /\ latencies_us = <<>>
    /\ total_events = 0
    /\ measured_events = 0
    /\ out = <<>>
    /\ err = <<>>
    /\ iter = 0
    /\ delivered = 0
    /\ pollsSinceStop = 0
    /\ batchesSinceStop = 0

Init ==
    /\ argv \in Argvs
    /\ twin = NoTwin
    /\ InitRun

loopVars == <<g_stop, revents, cnt, idx, ev, now_ns, latencies_us,
              total_events, measured_events, iter, delivered,
              pollsSinceStop, batchesSinceStop>>

\* main, lines 74-92: argument parsing.  An exception leaving std::stoi is
\* caught nowhere: std::terminate reports it on standard error and aborts.
DoParseArgs ==
    /\ pc = "main"
    /\ IF Len(argv) < 2
       THEN /\ err' = Append(err, "usage")
            /\ exit' = "exit1"
            /\ pc' = "done"
            /\ UNCHANGED <<limit, quiet>>
       ELSE LET r == ParseFrom(argv, 2, 0, FALSE) IN
            CASE r.status = "ok" ->
                    /\ limit' = r.limit
                    /\ quiet' = r.quiet
                    /\ pc' = "open"
                    /\ UNCHANGED <<err, exit>>
              [] r.status = "unknown" ->
                    /\ err' = Append(err, "unknown_arg")
                    /\ exit' = "exit1"
                    /\ pc' = "done"
                    /\ limit' = r.limit
                    /\ quiet' = r.quiet
              [] r.status = "throw" ->
                    /\ err' = Append(err, "terminate")
                    /\ exit' = "abort"
                    /\ pc' = "done"
                    /\ limit' = r.limit
                    /\ quiet' = r.quiet
    /\ UNCHANGED <<argv, fd, closeCalls, out>>
    /\ UNCHANGED loopVars

ParseArgs == DoParseArgs /\ UNCHANGED twin

\* main, lines 95-99: open the device; ok tells whether open succeeds.
DoOpen(ok) ==
    /\ pc = "open"
    /\ IF ok
       THEN /\ fd' = "open"
            /\ pc' = "setup"
            /\ UNCHANGED <<err, exit>>
       ELSE /\ fd' = "failed"
            /\ err' = Append(err, "perror_open")
            /\ exit' = "exit1"
            /\ pc' = "done"
    /\ UNCHANGED <<argv, limit, quiet, closeCalls, out>>
    /\ UNCHANGED loopVars

Open == \E ok \in BOOLEAN : DoOpen(ok) /\ UNCHANGED twin

-----------------------------------------------------------------------------
(* Doubles, as rationals *)

Abs(x) == IF x < 0 THEN 0 - x ELSE x

\* Where a value is used more than once it is bound as the element of a
\* singleton set, here and in the statistics, so that it is computed once.
RECURSIVE GCD(_, _)
GCD(a, b) ==
    IF b = 0 THEN a ELSE CHOOSE g \in {GCD(b, r) : r \in {a % b}} : TRUE

\* n/d in lowest terms, d > 0
Rat(n, d) ==
    CHOOSE q \in { IF x = 0 THEN [num |-> 0, den |-> 1]
                   ELSE [num |-> x \div g, den |-> y \div g] :
                   <<x, y, g>> \in {<<n, d, GCD(Abs(n), d)>>} } : TRUE

RatAdd(a, b) == Rat(a.num * b.den + b.num * a.den, a.den * b.den)

RatMul(a, b) == Rat(a.num * b.num, a.den * b.den)

RatLess(a, b) == a.num * b.den < b.num * a.den

-----------------------------------------------------------------------------
(* Time *)

\* Device timestamps (timeval) and clock readings (timespec) of the model.
Timevals == { [tv_sec |-> 1, tv_usec |-> 2], [tv_sec |-> 1, tv_usec |-> 5] }

Timespecs == { [tv_sec |-> 1, tv_nsec |-> 3500], [tv_sec |-> 1, tv_nsec |-> 5000] }

ts_to_ns(ts) == ts.tv_sec * 1000000000 + ts.tv_nsec

tv_to_ns(tv) == tv.tv_sec * 1000000000 + tv.tv_usec * 1000

\* No guard: every measurable record is sampled
NonNegative_always(now, evt) == TRUE

\* line 196: the guard against clock mismatch
NonNegative(now, evt) == now >= evt

\* A delta in whole microseconds: the division done on integers
delta_us_truncated(now, evt) == Rat((now - evt) \div 1000, 1)

\* line 197: double delta_us = (now_ns - evt_ns) / 1000.0
delta_us(now, evt) == Rat(now - evt, 1000)

-----------------------------------------------------------------------------
(* Records *)

EvTypes == {EV_SYN, EV_KEY, EV_REL, EV_ABS, EV_MSC, EV_SW}

Records == [type : EvTypes, time : Timevals]

\* A classification that also times switch records
measure_withSwitch(e) ==
    e.type = EV_KEY \/ e.type = EV_ABS \/ e.type = EV_REL \/ e.type = EV_MSC
        \/ e.type = EV_SW

\* line 185: bool measure
measure(e) == e.type = EV_KEY \/ e.type = EV_ABS \/ e.type = EV_REL \/ e.type = EV_MSC

Min(a, b) == IF a < b THEN a ELSE b

-----------------------------------------------------------------------------
(* Statistics *)

\* line 145: std::sort(v.begin(), v.end()), ascending.  The place k is taken
\* by the value x that has fewer than k elements below it and at least k
\* elements not above it.
Sort(s) ==
    IF s = <<>> THEN <<>>
    ELSE CHOOSE sorted \in
             { [k \in 1..Len(t) |->
                  CHOOSE x \in DOMAIN below : below[x] < k /\ k <= notAbove[x]] :
                 <<t, below, notAbove>> \in
                     { <<t,
                         [x \in {t[j] : j \in 1..Len(t)} |->
                            Cardinality({j \in 1..Len(t) : RatLess(t[j], x)})],
                         [x \in {t[j] : j \in 1..Len(t)} |->
                            Cardinality({j \in 1..Len(t) : ~RatLess(x, t[j])})]>> :
                         t \in {s} } } : TRUE

\* The sum of s[lo..hi], taken by halves
RECURSIVE SumRange(_, _, _)
SumRange(s, lo, hi) ==
    IF lo > hi THEN Rat(0, 1)
    ELSE IF lo = hi THEN s[lo]
    ELSE RatAdd(SumRange(s, lo, (lo + hi) \div 2),
                SumRange(s, (lo + hi) \div 2 + 1, hi))

\* lines 146-147: avg accumulates the elements of v; the sum of rationals
\* does not depend on the order of the additions
SumSeq(s) == SumRange(s, 1, Len(s))

Mean(v) == RatMul(SumSeq(v), Rat(1, Len(v)))

\* percentile(v, p), v sorted ascending, p an integer percentage:
\* idx = (p/100)*(n-1), i = floor(idx), frac = idx - i.  v[i] of the code is
\* v[i + 1] here.
percentile(v, p) ==
    IF v = <<>> THEN Rat(0, 1)
    ELSE IF p <= 0 THEN v[1]
    ELSE IF p >= 100 THEN v[Len(v)]
    ELSE LET i == (p * (Len(v) - 1)) \div 100
             frac == Rat((p * (Len(v) - 1)) % 100, 100)
         IN  IF i + 1 < Len(v)
             THEN RatAdd(RatMul(v[i + 1], RatAdd(Rat(1, 1), RatMul(Rat(-1, 1), frac))),
                         RatMul(v[i + 2], frac))
             ELSE v[i + 1]

\* The lambda print_stats: what it writes to standard output.
print_stats(final_summary, lat) ==
    IF lat = <<>> THEN <<>>
    ELSE CHOOSE written \in
             { << [kind |-> "stats", final |-> final_summary, n |-> Len(v),
                   avg |-> Mean(v),
                   p50 |-> percentile(v, 50),
                   p95 |-> percentile(v, 95),
                   p99 |-> percentile(v, 99)] >> : v \in {Sort(lat)} } : TRUE

-----------------------------------------------------------------------------
(* binary64 *)

(***************************************************************************)
(* The arithmetic of double with its rounding, for the properties that are *)
(* about the values of the statistics.  A finite non-negative double is    *)
(* m * 2^e, a record [m, e] with m a natural number that is odd or zero;   *)
(* m has up to 53 bits, so it is held as a sequence of limbs of 15 bits,   *)
(* the least significant first, without leading zero limbs.  Every         *)
(* operation computes the exact result and rounds it to nearest, ties to   *)
(* even.  The program subtracts only a smaller from a greater double, and  *)
(* its values are far from the subnormal and the overflow ranges.          *)
(***************************************************************************)

LimbBits == 15

Limb == 2 ^ LimbBits

RECURSIVE BNorm(_)
BNorm(a) ==
    IF a # <<>> /\ a[Len(a)] = 0 THEN BNorm(SubSeq(a, 1, Len(a) - 1)) ELSE a

\* the natural number n < 2^31 as limbs
RECURSIVE BFromInt(_)
BFromInt(n) == IF n = 0 THEN <<>> ELSE <<n % Limb>> \o BFromInt(n \div Limb)

\* the value of a, which is below 2^31
RECURSIVE BToInt(_)
BToInt(a) == IF a = <<>> THEN 0 ELSE Head(a) + Limb * BToInt(Tail(a))

BHead(a) == IF a = <<>> THEN 0 ELSE Head(a)

BTail(a) == IF a = <<>> THEN <<>> ELSE Tail(a)

RECURSIVE BAddC(_, _, _)
BAddC(a, b, c) ==
    IF a = <<>> /\ b = <<>> THEN (IF c = 0 THEN <<>> ELSE <<c>>)
    ELSE <<(BHead(a) + BHead(b) + c) % Limb>>
         \o BAddC(BTail(a), BTail(b), (BHead(a) + BHead(b) + c) \div Limb)

BAdd(a, b) == BAddC(a, b, 0)

\* a - b - c for a >= b + c
RECURSIVE BSubC(_, _, _)
BSubC(a, b, c) ==
    IF a = <<>> THEN <<>>
    ELSE <<(Head(a) - BHead(b) - c) % Limb>>
         \o BSubC(Tail(a), BTail(b), IF Head(a) - BHead(b) - c < 0 THEN 1 ELSE 0)

BSub(a, b) == BNorm(BSubC(a, b, 0))

\* -1, 0 or 1 as a is below, equal to or above b
RECURSIVE BCmpFrom(_, _, _)
BCmpFrom(a, b, k) ==
    IF k = 0 THEN 0
    ELSE IF a[k] < b[k] THEN -1
    ELSE IF a[k] > b[k] THEN 1
    ELSE BCmpFrom(a, b, k - 1)

BCmp(a, b) ==
    IF Len(a) < Len(b) THEN -1
    ELSE IF Len(a) > Len(b) THEN 1
    ELSE BCmpFrom(a, b, Len(a))

\* a * k + c for k, c < 2^15
RECURSIVE BMulSmallC(_, _, _)
BMulSmallC(a, k, c) ==
    IF a = <<>> THEN (IF c = 0 THEN <<>> ELSE <<c>>)
    ELSE <<(Head(a) * k + c) % Limb>>
         \o BMulSmallC(Tail(a), k, (Head(a) * k + c) \div Limb)

BMulSmall(a, k) == IF k = 0 THEN <<>> ELSE BMulSmallC(a, k, 0)

\* a * 2^(15 n)
RECURSIVE BShlLimbs(_, _)
BShlLimbs(a, n) == IF a = <<>> \/ n = 0 THEN a ELSE <<0>> \o BShlLimbs(a, n - 1)

RECURSIVE BMul(_, _)
BMul(a, b) ==
    IF b = <<>> THEN <<>>
    ELSE BAdd(BMulSmall(a, Head(b)), BShlLimbs(BMul(a, Tail(b)), 1))

\* quotient and remainder of a by d, 0 < d < 2^15: the limbs k..1 remain to
\* be divided, r is the remainder and q the quotient of the limbs above
RECURSIVE BDivSmallFrom(_, _, _, _, _)
BDivSmallFrom(a, d, k, r, q) ==
    IF k = 0 THEN [q |-> BNorm(q), r |-> r]
    ELSE BDivSmallFrom(a, d, k - 1, (r * Limb + a[k]) % d,
                       <<(r * Limb + a[k]) \div d>> \o q)

BDivSmall(a, d) == BDivSmallFrom(a, d, Len(a), 0, <<>>)

\* number of bits of the natural number n < 2^31
RECURSIVE IntBits(_)
IntBits(n) == IF n = 0 THEN 0 ELSE 1 + IntBits(n \div 2)

BBits(a) == IF a = <<>> THEN 0 ELSE (Len(a) - 1) * LimbBits + IntBits(a[Len(a)])

\* a * 2^k
BShl(a, k) == BShlLimbs(BMulSmall(a, 2 ^ (k % LimbBits)), k \div LimbBits)

\* floor(a / 2^k)
BShr(a, k) ==
    IF k \div LimbBits >= Len(a) THEN <<>>
    ELSE BDivSmall(SubSeq(a, k \div LimbBits + 1, Len(a)), 2 ^ (k % LimbBits)).q

\* number of low zero bits of a # 0
RECURSIVE BLowZeros(_)
BLowZeros(a) ==
    IF Head(a) = 0 THEN LimbBits + BLowZeros(Tail(a))
    ELSE CHOOSE k \in 0..LimbBits : Head(a) % (2 ^ k) = 0 /\ Head(a) % (2 ^ (k + 1)) # 0

DBL_MANT_DIG == 53

\* m * 2^e with m odd or zero
DNorm(m, e) ==
    IF m = <<>> THEN [m |-> <<>>, e |-> 0]
    ELSE [m |-> BShr(m, BLowZeros(m)), e |-> e + BLowZeros(m)]

\* the double nearest to m * 2^e, ties to even
DRound(m, e) ==
    IF BBits(m) <= DBL_MANT_DIG THEN DNorm(m, e)
    ELSE LET s == BBits(m) - DBL_MANT_DIG
             q == BShr(m, s)
             c == BCmp(BSub(m, BShl(q, s)), BShl(<<1>>, s - 1))
             up == c > 0 \/ (c = 0 /\ Head(q) % 2 = 1)
         IN  DNorm(IF up THEN BAdd(q, <<1>>) ELSE q, e + s)

\* the double of a natural number below 2^31
DFromInt(n) == DNorm(BFromInt(n), 0)

DMul(a, b) == DRound(BMul(a.m, b.m), a.e + b.e)

\* the mantissa of a at the exponent e <= a.e
DAt(a, e) == BShl(a.m, a.e - e)

DMinExp(a, b) ==
    IF a.m = <<>> THEN b.e ELSE IF b.m = <<>> THEN a.e
    ELSE IF a.e < b.e THEN a.e ELSE b.e

DAdd(a, b) == DRound(BAdd(DAt(a, DMinExp(a, b)), DAt(b, DMinExp(a, b))), DMinExp(a, b))

\* a - b for a >= b
DSub(a, b) == DRound(BSub(DAt(a, DMinExp(a, b)), DAt(b, DMinExp(a, b))), DMinExp(a, b))

DLess(a, b) == BCmp(DAt(a, DMinExp(a, b)), DAt(b, DMinExp(a, b))) < 0

DLeq(a, b) == BCmp(DAt(a, DMinExp(a, b)), DAt(b, DMinExp(a, b))) <= 0

\* a / d for the double of the natural number d, 0 < d < 2^15: the quotient
\* to more than 55 bits, and one more bit that tells whether a remainder is
\* left, rounded
DDivInt(a, d) ==
    IF a.m = <<>> THEN a
    ELSE LET k == DBL_MANT_DIG + 3 + IntBits(d)
             x == BDivSmall(BShl(a.m, k), d)
         IN  DRound(BAdd(BShl(x.q, 1), IF x.r = 0 THEN <<>> ELSE <<1>>), a.e - k - 1)

\* (size_t) a
DTrunc(a) == IF a.e >= 0 THEN BToInt(BShl(a.m, a.e)) ELSE BToInt(BShr(a.m, 0 - a.e))

-----------------------------------------------------------------------------
(* Statistics in binary64 *)

\* line 197: (now_ns - evt_ns) / 1000.0, the double that a sample is
delta_us64(now, evt) == DDivInt(DFromInt(now - evt), 1000)

\* The doubles of the accumulator lat, whose samples are multiples of 1 ns
\* given in usec: the sample q is the double of (1000 q) / 1000.0
Samples64(lat) ==
    [k \in 1..Len(lat) |-> delta_us64(lat[k].num * (1000 \div lat[k].den), 0)]

RECURSIVE Insert64(_, _)
Insert64(x, s) ==
    IF s = <<>> THEN <<x>>
    ELSE IF DLess(x, Head(s)) THEN <<x>> \o s
    ELSE <<Head(s)>> \o Insert64(x, Tail(s))

\* line 145
RECURSIVE Sort64(_)
Sort64(s) ==
    IF s = <<>> THEN <<>> ELSE Insert64(s[Len(s)], Sort64(SubSeq(s, 1, Len(s) - 1)))

\* lines 146-147: avg = 0.0; for (double x : v) avg += x
RECURSIVE Sum64(_, _)
Sum64(v, acc) == IF v = <<>> THEN acc ELSE Sum64(Tail(v), DAdd(acc, Head(v)))

\* lines 146-148
Mean64(v) == DDivInt(Sum64(v, DFromInt(0)), Len(v))

\* The order statistic below the position, without interpolation
percentile64_nearestRank(v, p) ==
    IF v = <<>> THEN DFromInt(0)
    ELSE IF p <= 0 THEN v[1]
    ELSE IF p >= 100 THEN v[Len(v)]
    ELSE v[DTrunc(DMul(DDivInt(DFromInt(p), 100), DFromInt(Len(v) - 1))) + 1]

\* lines 44-53, p a whole percentage; idx of the code is index here
percentile64(v, p) ==
    IF v = <<>> THEN DFromInt(0)
    ELSE IF p <= 0 THEN v[1]
    ELSE IF p >= 100 THEN v[Len(v)]
    ELSE LET index == DMul(DDivInt(DFromInt(p), 100), DFromInt(Len(v) - 1))
             i == DTrunc(index)
             frac == DSub(index, DFromInt(i))
         IN  IF i + 1 < Len(v)
             THEN DAdd(DMul(v[i + 1], DSub(DFromInt(1), frac)), DMul(v[i + 2], frac))
             ELSE v[i + 1]

\* The lambda print_stats in binary64: what it writes to standard output.
print_stats64(final_summary, lat) ==
    IF lat = <<>> THEN <<>>
    ELSE LET v == Sort64(Samples64(lat)) IN
         << [kind |-> "stats", final |-> final_summary, n |-> Len(v),
             avg |-> Mean64(v),
             p50 |-> percentile64(v, 50),
             p95 |-> percentile64(v, 95),
             p99 |-> percentile64(v, 99)] >>

-----------------------------------------------------------------------------
(* The main loop *)

cfgVars == <<argv, limit, quiet>>

\* main, lines 101-139: clock selection, device name, banner, SIGINT handler;
\* clkOk tells whether the ioctl EVIOCSCLOCKID succeeds.
DoSetup(clkOk) ==
    /\ pc = "setup"
    /\ err' = IF ~clkOk /\ ~quiet THEN Append(err, "warn_clock") ELSE err
    /\ out' = IF ~quiet THEN out \o <<[kind |-> "device"], [kind |-> "collecting"]>>
              ELSE out
    /\ pc' = "loop"
    /\ UNCHANGED <<exit, fd, closeCalls>>
    /\ UNCHANGED cfgVars
    /\ UNCHANGED loopVars

Setup == \E clkOk \in BOOLEAN : DoSetup(clkOk) /\ UNCHANGED twin

HandlerInstalled == pc \in {"loop", "poll", "read", "proc", "close", "report"}

\* on_sigint, line 34
DoSigint ==
    /\ HandlerInstalled
    /\ g_stop' = TRUE
    /\ UNCHANGED <<argv, pc, exit, limit, quiet, fd, closeCalls, revents, cnt,
                   idx, ev, now_ns, latencies_us, total_events,
                   measured_events, out, err, iter, delivered, pollsSinceStop,
                   batchesSinceStop>>

on_sigint == DoSigint /\ UNCHANGED twin

\* Leaving the loop past the close
AfterLoop_skipClose == "report"

\* A failure that is retried: continue where the code has break
AfterLoop_retry == "loop"

\* Where control goes when the loop is left, by its condition or by a break:
\* line 217
AfterLoop == "close"

\* A loop condition that does not read the stop flag
LoopContinues_ignoreStop == limit = 0 \/ Len(latencies_us) < limit

\* A loop condition that does not read the limit
LoopContinues_ignoreLimit == ~g_stop

\* line 161: the loop condition
LoopContinues == ~g_stop /\ (limit = 0 \/ Len(latencies_us) < limit)

\* The model follows a run for MaxIter calls of poll.
DoLoopCond ==
    /\ pc = "loop"
    /\ IF LoopContinues
       THEN /\ iter < MaxIter
            /\ pc' = "poll"
       ELSE pc' = AfterLoop
    /\ UNCHANGED <<exit, fd, closeCalls, out, err>>
    /\ UNCHANGED cfgVars
    /\ ev' = NoEvent    \* the body of the last iteration is left
    /\ UNCHANGED <<g_stop, revents, cnt, idx, now_ns, latencies_us,
                   total_events, measured_events, iter, delivered,
                   pollsSinceStop, batchesSinceStop>>

LoopCond == DoLoopCond /\ UNCHANGED twin

RevSet == { {"POLLIN"}, {"POLLIN", "POLLHUP"}, {"POLLHUP"} }

PollResults == {"EINTR", "error", "timeout", "ready"}

\* lines 162-172: poll(&pfd, 1, 5000) and the handling of its result res,
\* with revents re when the descriptor is ready
DoPoll(res, re) ==
    /\ pc = "poll"
    /\ iter' = iter + 1
    /\ pollsSinceStop' = IF g_stop THEN pollsSinceStop + 1 ELSE pollsSinceStop
    /\ CASE res = "EINTR" ->
               /\ pc' = "loop"
               /\ UNCHANGED <<revents, out, err>>
         [] res = "error" ->
               /\ err' = Append(err, "perror_poll")
               /\ pc' = AfterLoop
               /\ UNCHANGED <<revents, out>>
         [] res = "timeout" ->
               /\ out' = IF ~quiet THEN Append(out, [kind |-> "idle"]) ELSE out
               /\ revents' = {}
               /\ pc' = "loop"
               /\ UNCHANGED err
         [] res = "ready" ->
               /\ revents' = re
               /\ pc' = IF "POLLIN" \in re THEN "read" ELSE "loop"
               /\ UNCHANGED <<out, err>>
    /\ UNCHANGED <<exit, fd, closeCalls, g_stop, cnt, idx, ev, now_ns,
                   latencies_us, total_events, measured_events, delivered,
                   batchesSinceStop>>
    /\ UNCHANGED cfgVars

Poll ==
    \E res \in PollResults :
      \E re \in (IF res = "ready" THEN RevSet ELSE {{}}) :
        DoPoll(res, re) /\ UNCHANGED twin

\* A for loop that also stops once the stop flag is set
ForContinues_untilStopped(i, n) == i < n /\ ~g_stop

\* line 180: the condition of the for loop over the batch
ForContinues(i, n) == i < n

ReadResults == {"EAGAIN", "EINTR", "error", "data"}

\* lines 173-180: read(fd, evbuf, sizeof(evbuf)) and the handling of its
\* result res; n bytes are returned when it is "data"
DoRead(res, n) ==
    /\ pc = "read"
    /\ CASE res \in {"EAGAIN", "EINTR"} ->
               /\ pc' = "loop"
               /\ UNCHANGED <<cnt, idx, err, delivered, batchesSinceStop>>
         [] res = "error" ->
               /\ err' = Append(err, "perror_read")
               /\ pc' = AfterLoop
               /\ UNCHANGED <<cnt, idx, delivered, batchesSinceStop>>
         [] res = "data" ->
               /\ n <= BUF_EV * SIZEOF_INPUT_EVENT
               /\ cnt' = n \div SIZEOF_INPUT_EVENT
               /\ idx' = 0
               /\ delivered' = delivered + cnt'
               /\ batchesSinceStop' =
                    IF g_stop THEN batchesSinceStop + 1 ELSE batchesSinceStop
               /\ pc' = IF ForContinues(0, cnt') THEN "proc" ELSE "loop"
               /\ UNCHANGED err
    /\ UNCHANGED <<exit, fd, closeCalls, g_stop, revents, ev, now_ns,
                   latencies_us, total_events, measured_events, out, iter,
                   pollsSinceStop>>
    /\ UNCHANGED cfgVars

\* The byte counts a read may return here: k whole records, or k records and
\* a part of one; the model follows MaxEvents records in all.
ReadSizes ==
    { k * SIZEOF_INPUT_EVENT + part :
        k \in 0..Min(BUF_EV, MaxEvents - delivered), part \in {0, 8} }

Read ==
    \E res \in ReadResults :
      \E n \in (IF res = "data" THEN ReadSizes ELSE {0}) :
        DoRead(res, n) /\ UNCHANGED twin

\* The rolling summary printed whether quiet or not
SampleOutput_rollingAlsoQuiet(d, lat, measured) ==
    (IF quiet THEN <<>> ELSE <<[kind |-> "event", latency |-> d]>>)
    \o (IF measured % ROLLING_EVERY = 0 THEN print_stats(FALSE, lat) ELSE <<>>)

\* What the body of the for loop writes for a sample (lines 201-211).  The
\* per-event line is kept with its latency; the type label, code and value it
\* also prints are left out.
SampleOutput(d, lat, measured) ==
    IF quiet THEN <<>>
    ELSE <<[kind |-> "event", latency |-> d]>>
         \o (IF measured % ROLLING_EVERY = 0 THEN print_stats(FALSE, lat) ELSE <<>>)

\* lines 180-213: one iteration of the for loop over the batch; e is the
\* record evbuf[i], now_ts what clock_gettime returns if it is called
DoProcessRecord(e, now_ts) ==
    /\ pc = "proc"
    /\ idx < cnt
    /\ ev' = e
    /\ total_events' = total_events + 1
    /\ IF ~measure(ev')
       THEN UNCHANGED <<now_ns, latencies_us, measured_events, out>>
       ELSE /\ ts_to_ns(now_ts) >= now_ns
            /\ now_ns' = ts_to_ns(now_ts)
            /\ LET evt_ns == tv_to_ns(ev'.time) IN
               IF NonNegative(now_ns', evt_ns)
               THEN /\ latencies_us' =
                         Append(latencies_us, delta_us(now_ns', evt_ns))
                    /\ measured_events' = measured_events + 1
                    /\ out' = out \o SampleOutput(delta_us(now_ns', evt_ns),
                                                  latencies_us', measured_events')
               ELSE UNCHANGED <<latencies_us, measured_events, out>>
    /\ IF ForContinues(idx + 1, cnt)
       THEN /\ idx' = idx + 1
            /\ pc' = "proc"
            /\ cnt' = cnt
       ELSE \* the for loop ends: cnt and i leave scope
            /\ idx' = 0
            /\ cnt' = 0
            /\ pc' = "loop"
    /\ UNCHANGED <<exit, fd, closeCalls, g_stop, revents, err, iter,
                   delivered, pollsSinceStop, batchesSinceStop>>
    /\ UNCHANGED cfgVars

\* The clock is read for a measurable record only.
ClockReadings(e) == IF measure(e) THEN Timespecs ELSE {[tv_sec |-> 0, tv_nsec |-> 0]}

ProcessRecord ==
    \E e \in Records :
      \E now_ts \in ClockReadings(e) :
        DoProcessRecord(e, now_ts) /\ UNCHANGED twin

\* line 217
DoClose ==
    /\ pc = "close"
    /\ fd' = "closed"
    /\ closeCalls' = closeCalls + 1
    /\ pc' = "report"
    /\ UNCHANGED <<exit, out, err>>
    /\ UNCHANGED cfgVars
    /\ UNCHANGED loopVars

Close == DoClose /\ UNCHANGED twin

NoData == [kind |-> "nodata"]

\* A totals line that reports the measured count in both places
Totals_measuredTwice ==
    [kind |-> "totals", seen |-> measured_events, measured |-> measured_events]

\* lines 225-226
Totals == [kind |-> "totals", seen |-> total_events, measured |-> measured_events]

\* A final summary that --quiet suppresses as well
FinalOutput_summaryUnlessQuiet ==
    (IF quiet THEN <<>>
     ELSE IF latencies_us # <<>> THEN print_stats(TRUE, latencies_us)
     ELSE <<NoData>>)
    \o <<Totals>>

\* A final output without the no-data notice
FinalOutput_statsOnly == print_stats(TRUE, latencies_us) \o <<Totals>>

\* lines 219-226: the final summary or the notice, then the totals line
FinalOutput ==
    (IF latencies_us # <<>> THEN print_stats(TRUE, latencies_us) ELSE <<NoData>>)
    \o <<Totals>>

\* lines 219-227: final output and return 0
DoReport ==
    /\ pc = "report"
    /\ out' = out \o FinalOutput
    /\ exit' = "exit0"
    /\ pc' = "done"
    /\ UNCHANGED <<fd, closeCalls, err>>
    /\ UNCHANGED cfgVars
    /\ UNCHANGED loopVars

Report == DoReport /\ UNCHANGED twin

Next ==
    \/ ParseArgs
    \/ Open
    \/ Setup
    \/ on_sigint
    \/ LoopCond
    \/ Poll
    \/ Read
    \/ ProcessRecord
    \/ Close
    \/ Report

Spec == Init /\ [][Next]_vars

\* The main thread keeps running: poll returns after at most its timeout, read
\* does not block (O_NONBLOCK), and nothing else waits.  The steps of main
\* before the final output:
MainToClose ==
    \/ ParseArgs
    \/ Open
    \/ Setup
    \/ LoopCond
    \/ Poll
    \/ Read
    \/ ProcessRecord
    \/ Close

\* The step of Report, told by what it does to pc
ReportStep == pc = "report" /\ pc' = "done"

LiveSpec == Init /\ [][Next]_vars /\ WF_vars(MainToClose) /\ WF_pc(ReportStep)

-----------------------------------------------------------------------------
(* The statistics on their own *)

\* samples of a sample set
MaxSamples == 3
\* invocations of print_stats on a sample set
MaxCalls == 2

\* Latencies, in nanoseconds
SampleNs == {315, 1500, 3000}

ScenarioA == <<100000, 200000, 300000, 400000, 500000>>

ScenarioB == <<10000, 10000, 10000>>

SampleSets ==
    {<<>>, ScenarioA, ScenarioB} \cup UNION {[1..n -> SampleNs] : n \in 1..MaxSamples}

\* The accumulator holds a sample set, print_stats has not run yet.
StatsInit ==
    /\ argv = <<PROG, DEV>>
    /\ twin = NoTwin
    /\ pc = "stats"
    /\ exit = "running"
    /\ limit = 0
    /\ quiet = FALSE
    /\ fd = "open"
    /\ closeCalls = 0
    /\ g_stop = FALSE
    /\ revents = {}
    /\ cnt = 0
    /\ idx = 0
    /\ ev = NoEvent
    /\ now_ns = 0
    /\ \E ns \in SampleSets :
         /\ latencies_us = [k \in 1..Len(ns) |-> delta_us(ns[k], 0)]
         /\ total_events = Len(ns)
         /\ measured_events = Len(ns)
         /\ delivered = Len(ns)
    /\ out = <<>>
    /\ err = <<>>
    /\ iter = 0
    /\ pollsSinceStop = 0
    /\ batchesSinceStop = 0

\* print_stats that sorts the accumulator itself
AccumulatorAfterStats_sortedInPlace(lat) == Sort(lat)

\* lines 144-145: v is a copy of latencies_us, and the copy is sorted
AccumulatorAfterStats(lat) == lat

\* One invocation of print_stats, lines 142-159
PrintStatsCall(final_summary) ==
    /\ pc = "stats"
    /\ Len(out) < MaxCalls
    /\ out' = out \o print_stats64(final_summary, latencies_us)
    /\ latencies_us' = AccumulatorAfterStats(latencies_us)
    /\ UNCHANGED <<argv, pc, exit, limit, quiet, fd, closeCalls, g_stop,
                   revents, cnt, idx, ev, now_ns, total_events,
                   measured_events, err, iter, delivered, pollsSinceStop,
                   batchesSinceStop, twin>>

RollingStats == PrintStatsCall(FALSE)

FinalStats == PrintStatsCall(TRUE)

StatsNext == RollingStats \/ FinalStats

StatsSpec == StatsInit /\ [][StatsNext]_vars

-----------------------------------------------------------------------------
(* A run that has collected samples *)

\* Numbers of samples held when the model takes up the run, one less than a
\* multiple of ROLLING_EVERY: a run that is not quiet before its first and
\* before its second rolling summary, a quiet run before its 50th sample
CollectedBefore(q) ==
    IF q THEN {ROLLING_EVERY - 1} ELSE {ROLLING_EVERY - 1, 2 * ROLLING_EVERY - 1}

\* The sample of a key record stamped at 1 s + 2 usec and received at
\* 1 s + 3500 ns
EarlierSample == delta_us(1000003500, 1000002000)

EarlierSamples(n) == [k \in 1..n |-> EarlierSample]

\* What the samples lo..hi wrote to standard output, lines 201-211, put
\* together by halves
RECURSIVE EarlierOutput(_, _)
EarlierOutput(lo, hi) ==
    IF lo > hi THEN <<>>
    ELSE IF lo = hi THEN SampleOutput(EarlierSample, EarlierSamples(lo), lo)
    ELSE EarlierOutput(lo, (lo + hi) \div 2)
         \o EarlierOutput((lo + hi) \div 2 + 1, hi)

\* The state of a run without limit at the loop condition, after n key
\* records were read and sampled and before a signal.  One call of poll is
\* counted for them; delivered and the counters since the stop count from
\* this state on.
RollInit ==
    /\ argv \in {<<PROG, DEV>>, <<PROG, DEV, QUIET>>}
    /\ twin = NoTwin
    /\ pc = "loop"
    /\ exit = "running"
    /\ limit = 0
    /\ quiet = (Len(argv) = 3)
    /\ fd = "open"
    /\ closeCalls = 0
    /\ g_stop = FALSE
    /\ revents = {"POLLIN"}
    /\ cnt = 0
    /\ idx = 0
    /\ ev = NoEvent
    /\ now_ns = 1000003500
    /\ \E n \in CollectedBefore(quiet) :
         /\ latencies_us = EarlierSamples(n)
         /\ total_events = n
         /\ measured_events = n
         /\ out = (IF quiet THEN <<>>
                   ELSE <<[kind |-> "device"], [kind |-> "collecting"]>>)
                  \o EarlierOutput(1, n)
    /\ err = <<>>
    /\ iter = 1
    /\ delivered = 0
    /\ pollsSinceStop = 0
    /\ batchesSinceStop = 0

RollNext ==
    \/ on_sigint
    \/ LoopCond
    \/ Poll
    \/ Read
    \/ ProcessRecord
    \/ Close
    \/ Report

RollSpec == RollInit /\ [][RollNext]_vars

-----------------------------------------------------------------------------
(* Two runs on the same inputs *)

\* Two runs of the program are followed side by side.  The variables hold one
\* of them and twin.other the other.  The run in the variables takes a step
\* on an input of its environment (twin.turn = "lead"), the runs change
\* places ("swap"), and the other run takes the step that the same input
\* gives it ("follow"); it then leads the next step.  An input is what the
\* environment decides: the result of open, of the clock ioctl, of poll and
\* of read, the record and the clock reading of an iteration, and the arrival
\* of SIGINT between two steps of main.

RunState ==
    [argv |-> argv, pc |-> pc, exit |-> exit, limit |-> limit,
     quiet |-> quiet, fd |-> fd, closeCalls |-> closeCalls,
     g_stop |-> g_stop, revents |-> revents, cnt |-> cnt, idx |-> idx,
     ev |-> ev, now_ns |-> now_ns, latencies_us |-> latencies_us,
     total_events |-> total_events, measured_events |-> measured_events,
     out |-> out, err |-> err, iter |-> iter, delivered |-> delivered,
     pollsSinceStop |-> pollsSinceStop, batchesSinceStop |-> batchesSinceStop]

\* The variables take up the run r
Resume(r) ==
    /\ argv' = r.argv
    /\ pc' = r.pc
    /\ exit' = r.exit
    /\ limit' = r.limit
    /\ quiet' = r.quiet
    /\ fd' = r.fd
    /\ closeCalls' = r.closeCalls
    /\ g_stop' = r.g_stop
    /\ revents' = r.revents
    /\ cnt' = r.cnt
    /\ idx' = r.idx
    /\ ev' = r.ev
    /\ now_ns' = r.now_ns
    /\ latencies_us' = r.latencies_us
    /\ total_events' = r.total_events
    /\ measured_events' = r.measured_events
    /\ out' = r.out
    /\ err' = r.err
    /\ iter' = r.iter
    /\ delivered' = r.delivered
    /\ pollsSinceStop' = r.pollsSinceStop
    /\ batchesSinceStop' = r.batchesSinceStop

\* Command lines without --quiet; the other run gets the same with --quiet
TwinArgvs ==
    { <<PROG, DEV>>,
      <<PROG, DEV, LIMIT, <<"1">>>> }

\* The records the two runs are given: one type that is measured and one
\* that is not, with each timestamp
TwinRecords == {e \in Records : e.type \in {EV_SYN, EV_KEY}}

NoInput == [op |-> "none", a |-> 0, b |-> 0]

\* The step of the run in the variables on the input inp
Take(inp) ==
    \/ inp.op = "ParseArgs" /\ DoParseArgs
    \/ inp.op = "Open" /\ DoOpen(inp.a)
    \/ inp.op = "Setup" /\ DoSetup(inp.a)
    \/ inp.op = "on_sigint" /\ DoSigint
    \/ inp.op = "LoopCond" /\ DoLoopCond
    \/ inp.op = "Poll" /\ DoPoll(inp.a, inp.b)
    \/ inp.op = "Read" /\ DoRead(inp.a, inp.b)
    \/ inp.op = "ProcessRecord" /\ DoProcessRecord(inp.a, inp.b)
    \/ inp.op = "Close" /\ DoClose
    \/ inp.op = "Report" /\ DoReport

TwinInit ==
    /\ argv \in TwinArgvs
    /\ InitRun
    /\ twin = [turn |-> "lead",
               other |-> [RunState EXCEPT !.argv = Append(argv, QUIET)],
               input |-> NoInput,
               at |-> "main"]

\* The run in the variables takes its step on inp; twin.at keeps where it
\* stood.
Lead(inp) ==
    /\ Take(inp)
    /\ twin' = [twin EXCEPT !.turn = "swap", !.input = inp, !.at = pc]

\* The run in the variables takes a step on any input of the environment.
TwinLead ==
    /\ twin.turn = "lead"
    /\ \/ \E o \in {"ParseArgs", "on_sigint", "LoopCond", "Close", "Report"} :
            Lead([op |-> o, a |-> 0, b |-> 0])
       \/ \E ok \in BOOLEAN : Lead([op |-> "Open", a |-> ok, b |-> 0])
       \/ \E clkOk \in BOOLEAN : Lead([op |-> "Setup", a |-> clkOk, b |-> 0])
       \/ \E res \in PollResults :
            \E re \in (IF res = "ready" THEN RevSet ELSE {{}}) :
              Lead([op |-> "Poll", a |-> res, b |-> re])
       \/ \E res \in ReadResults :
            \E n \in (IF res = "data" THEN ReadSizes ELSE {0}) :
              Lead([op |-> "Read", a |-> res, b |-> n])
       \/ \E e \in TwinRecords :
            \E now_ts \in ClockReadings(e) :
              Lead([op |-> "ProcessRecord", a |-> e, b |-> now_ts])

TwinSwap ==
    /\ twin.turn = "swap"
    /\ Resume(twin.other)
    /\ twin' = [twin EXCEPT !.turn = "follow", !.other = RunState]

\* The other run, now in the variables, takes its step on the same input.
TwinFollow ==
    /\ twin.turn = "follow"
    /\ Take(twin.input)
    /\ twin' = [twin EXCEPT !.turn = "lead", !.input = NoInput]

TwinNext == TwinLead \/ TwinSwap \/ TwinFollow

TwinSpec == TwinInit /\ [][TwinNext]_vars

-----------------------------------------------------------------------------
(* Vocabulary of the properties *)

Range(s) == {s[k] : k \in 1..Len(s)}

\* The final summaries, and the no-data notices, written so far
FinalReports == {k \in 1..Len(out) : out[k].kind = "stats" /\ out[k].final}

NoDataNotices == {k \in 1..Len(out) : out[k].kind = "nodata"}

FatalIO == "perror_poll" \in Range(err) \/ "perror_read" \in Range(err)

\* The run went through the main loop and main returned
LoopExited == pc = "done" /\ exit = "exit0"

-----------------------------------------------------------------------------
(* C1 *)

\* C1: with a positive limit L, when the loop stopped because the limit was
\* reached (no stop signal, no fatal error), exactly one final summary is
\* produced and it covers exactly L samples.
C1_LimitSummaryCoversExactlyLimit ==
    (LoopExited /\ limit > 0 /\ ~g_stop /\ ~FatalIO) =>
        /\ Cardinality(FinalReports) = 1
        /\ \A k \in FinalReports : out[k].n = limit

-----------------------------------------------------------------------------
(* C2 *)

\* C2: the stop flag is read only in the loop condition.  While a batch is
\* being processed, whatever happens to the stop flag, the next step of main
\* processes the next record of the batch: total-seen accounts for exactly the
\* records of the batch processed so far, and the batch is left only after its
\* last record, with every delivered record counted.
C2_NeverStopsMidBatch ==
    [][ pc = "proc" =>
          /\ idx < cnt
          /\ total_events = delivered - cnt + idx
          /\ \/ pc' = "proc" /\ idx' \in {idx, idx + 1} /\ cnt' = cnt
             \/ pc' = "loop" /\ idx + 1 = cnt /\ total_events' = delivered' ]_vars

\* The signal arrived after the batch of two was read; the loop is still in
\* the batch, with its last record to process.
C2_Witness ==
    /\ g_stop /\ batchesSinceStop = 0
    /\ pc = "proc" /\ cnt = 2 /\ idx = 1

-----------------------------------------------------------------------------
(* C3 *)

MeasurableTypes == {EV_KEY, EV_ABS, EV_REL, EV_MSC}

\* The rational q is ns nanoseconds, in microseconds (1 us = 1000 ns)
IsMicrosecondsOf(q, ns) == q.den > 0 /\ q.num * 1000 = ns * q.den

\* The step processes a record, which is ev after it
RecordStep == pc = "proc" /\ total_events' # total_events

\* C3: the accumulator never holds a negative value, and it changes only by
\* the processing of a record of a measurable type whose receipt time is not
\* before its device timestamp, which appends exactly (receipt time - device
\* timestamp) at the end; every such record is appended.
C3_AccumulatorIsTheNonNegativeDeltas ==
    /\ [](\A k \in 1..Len(latencies_us) : latencies_us[k].num >= 0)
    /\ [][ LET eligible == /\ RecordStep
                           /\ ev'.type \in MeasurableTypes
                           /\ now_ns' >= tv_to_ns(ev'.time)
           IN  IF eligible
               THEN /\ Len(latencies_us') = Len(latencies_us) + 1
                    /\ SubSeq(latencies_us', 1, Len(latencies_us)) = latencies_us
                    /\ IsMicrosecondsOf(latencies_us'[Len(latencies_us')],
                                        now_ns' - tv_to_ns(ev'.time))
               ELSE latencies_us' = latencies_us ]_vars

\* A sample of 1.5 usec has been appended, and the processing of another
\* record has left the accumulator as it was.
C3_Witness ==
    /\ Len(latencies_us) = 1 /\ latencies_us[1] = [num |-> 3, den |-> 2]
    /\ total_events = 2 /\ now_ns = 1000003500 /\ delivered = 2 /\ pc = "loop"

-----------------------------------------------------------------------------
(* C4 *)

\* C4: when main has left the loop and returned, whatever the reason and
\* whatever quiet, the output ends with exactly one of the final summary and
\* the no-data notice, followed by the totals line: the final summary, over
\* all the samples, iff the accumulator is not empty.  No statistics are
\* ever computed over an empty accumulator.
C4_ExactlyOneFinalReport ==
    /\ \A k \in 1..Len(out) : out[k].kind = "stats" => out[k].n > 0
    /\ LoopExited =>
         /\ Cardinality(FinalReports) + Cardinality(NoDataNotices) = 1
         /\ Len(out) >= 2
         /\ out[Len(out)].kind = "totals"
         /\ IF latencies_us # <<>>
            THEN /\ Len(out) - 1 \in FinalReports
                 /\ out[Len(out) - 1].n = Len(latencies_us)
            ELSE Len(out) - 1 \in NoDataNotices

\* A quiet run ended by a fatal read error after a sample was collected.
C4_Witness ==
    /\ LoopExited /\ quiet /\ "perror_read" \in Range(err)
    /\ latencies_us # <<>> /\ FinalReports # {}

-----------------------------------------------------------------------------
(* C5 *)

\* C5: close is called at most once and only on an open handle; poll and read
\* are issued only on the open handle; when the process has exited, a handle
\* that was opened has been closed exactly once, and close was never called
\* when the open failed or never happened.
C5_ClosedExactlyOnce ==
    /\ closeCalls <= 1
    /\ closeCalls = 1 <=> fd = "closed"
    /\ pc \in {"poll", "read", "proc"} => fd = "open"
    /\ pc = "done" => fd \in {"none", "failed", "closed"}
    /\ fd \in {"none", "failed"} => closeCalls = 0

\* The process exited after a fatal poll error, the handle closed.
C5_Witness ==
    pc = "done" /\ "perror_poll" \in Range(err) /\ fd = "closed" /\ closeCalls = 1

-----------------------------------------------------------------------------
(* C6 *)

\* C6: processing a record of a measurable type whose device timestamp is
\* greater than the receipt time adds one to total-seen and changes neither
\* measured-count nor the accumulator, and writes nothing to standard output
\* (no per-event line, no rolling summary) nor to standard error.
C6_LateTimestampIsDiscarded ==
    [][ (RecordStep /\ ev'.type \in MeasurableTypes /\ tv_to_ns(ev'.time) > now_ns') =>
            /\ total_events' = total_events + 1
            /\ measured_events' = measured_events
            /\ latencies_us' = latencies_us
            /\ out' = out
            /\ err' = err ]_vars

\* In a run that is not quiet the clock was read for the one record seen so
\* far, and the record was not sampled.
C6_Witness ==
    /\ ~quiet /\ pc = "loop"
    /\ total_events = 1 /\ measured_events = 0 /\ now_ns = 1000003500

-----------------------------------------------------------------------------
(* C7 *)

\* C7: every record processed adds one to total-seen.  A record of type key,
\* absolute, relative or miscellaneous is timed: it is sampled iff the receipt
\* time is not before its timestamp.  A record of any other type changes
\* neither measured-count nor the accumulator and reads no clock, whatever its
\* timestamp.
C7_TimedIffMeasurableType ==
    [][ RecordStep =>
          /\ total_events' = total_events + 1
          /\ IF ev'.type \in MeasurableTypes
             THEN IF now_ns' >= tv_to_ns(ev'.time)
                  THEN /\ measured_events' = measured_events + 1
                       /\ Len(latencies_us') = Len(latencies_us) + 1
                  ELSE /\ measured_events' = measured_events
                       /\ latencies_us' = latencies_us
             ELSE /\ measured_events' = measured_events
                  /\ latencies_us' = latencies_us
                  /\ now_ns' = now_ns
                  /\ out' = out ]_vars

\* Two records, of two batches, were processed and no clock was ever read:
\* both were of types that are not timed.
C7_Witness ==
    /\ pc = "loop" /\ iter = 2
    /\ total_events = 2 /\ measured_events = 0 /\ now_ns = 0

-----------------------------------------------------------------------------
(* C8 *)

LoopPcs == {"loop", "poll", "read", "proc"}

LimitReached == limit # 0 /\ Len(latencies_us) >= limit

\* C8: once the stop flag is set, the limit is reached or a fatal I/O error
\* has occurred, the loop is eventually left and main returns; the loop is
\* left for no other reason; and with the stop flag set at most one more poll
\* and at most one more batch happen.
C8_LoopStopsForTheThreeReasonsOnly ==
    /\ [](pollsSinceStop <= 1 /\ batchesSinceStop <= 1)
    /\ [][ (pc \in LoopPcs /\ pc' \notin LoopPcs) =>
               (g_stop \/ LimitReached \/ FatalIO') ]_vars
    /\ [](((g_stop \/ LimitReached \/ FatalIO) /\ pc \in LoopPcs)
            => <>(pc = "done" /\ exit = "exit0"))

\* The flag was set, one more poll and one more batch followed, and main
\* returned.
C8_Witness ==
    /\ LoopExited /\ g_stop
    /\ pollsSinceStop = 1 /\ batchesSinceStop = 1 /\ ~FatalIO /\ limit = 0

-----------------------------------------------------------------------------
(* C9, C10 *)

\* The text of a --limit value: an optional sign and one to nine digits
ValidLimitValue(s) ==
    LET k == IF Len(s) > 0 /\ s[1] \in {"+", "-"} THEN 2 ELSE 1
    IN  /\ k <= Len(s)
        /\ Len(s) - k + 1 <= 9
        /\ \A j \in k..Len(s) : IsDigit(s[j])

\* The options from position k on are --quiet and --limit N only
RECURSIVE ValidOptionsFrom(_, _)
ValidOptionsFrom(a, k) ==
    \/ k > Len(a)
    \/ a[k] = QUIET /\ ValidOptionsFrom(a, k + 1)
    \/ /\ a[k] = LIMIT
       /\ k + 1 <= Len(a)
       /\ ValidLimitValue(a[k + 1])
       /\ ValidOptionsFrom(a, k + 2)

\* A missing device path, an unknown flag, --limit without a value or with a
\* value that is not a number of the range of int
InvalidCmdLine(a) == Len(a) < 2 \/ ~ValidOptionsFrom(a, 3)

\* C9: every invalid command line ends in a message on standard error and
\* exit code 1, the device never opened.
C9_InvalidArgsExitOne ==
    (pc = "done" /\ InvalidCmdLine(argv)) =>
        (exit = "exit1" /\ err # <<>> /\ fd = "none")

DeviceError == fd = "failed" \/ FatalIO

\* C10: the exit code is 1 on argument errors and on device errors, and 0
\* otherwise (normal completion, by the limit or by the interrupt signal).
C10_ExitCodes ==
    pc = "done" =>
        exit = (IF InvalidCmdLine(argv) \/ DeviceError THEN "exit1" ELSE "exit0")

-----------------------------------------------------------------------------
(* C12 *)

\* C12: in every reachable state measured-count is the size of the
\* accumulator and is at most total-seen, which is at most the number of whole
\* records the successful reads returned; when main has returned, the last
\* line of the output is the totals line, and it reports as total-seen the
\* number of whole records returned by all the successful reads and as
\* measured-count the number of samples of the accumulator.
C12_TotalsAreTheCounts ==
    /\ measured_events = Len(latencies_us)
    /\ measured_events <= total_events
    /\ total_events <= delivered
    /\ LoopExited =>
         /\ out # <<>>
         /\ out[Len(out)] = [kind |-> "totals", seen |-> delivered,
                                measured |-> Len(latencies_us)]

\* Main returned after two records were read, one of them sampled.
C12_Witness ==
    /\ LoopExited /\ delivered = 2 /\ Len(latencies_us) = 1
    /\ out[Len(out)] = [kind |-> "totals", seen |-> 2, measured |-> 1]

-----------------------------------------------------------------------------
(* C16 *)

\* The step is a return of poll
PollStep == pc = "poll" /\ iter' # iter

IdleNotice == [kind |-> "idle"]

\* C16: every return of poll is handled as one of four outcomes: ready, a
\* read of a batch is attempted; idle, the timeout, with its notice unless
\* quiet, and back to the loop condition; interrupted, back to the loop
\* condition with nothing written; fatal error, reported, the loop is left.
C16_PollOutcomesAreFour ==
    [][ PollStep =>
          \/ pc' = "read"
          \/ /\ pc' = "loop"
             /\ revents' = {}
             /\ out' = (IF quiet THEN out ELSE Append(out, IdleNotice))
             /\ err' = err
          \/ /\ pc' = "loop"
             /\ revents' = revents
             /\ out' = out
             /\ err' = err
          \/ /\ pc' = AfterLoop
             /\ err' = Append(err, "perror_poll") ]_vars

-----------------------------------------------------------------------------
(* C17 *)

\* The step is a return of read
ReadStep == pc = "read" /\ pc' # "read"

SamplesAndCounters == <<latencies_us, total_events, measured_events>>

\* C17: a return of poll or of read that brings no data changes neither the
\* accumulator nor the counters; unless it is a failure reported on standard
\* error it returns to the loop condition (or, poll being ready, goes on to
\* read), and a reported failure leaves the loop.  After a fatal failure the
\* accumulator does not change any more, and the final summary is computed
\* over exactly the samples it holds: the notice if there is none.
C17_TransientRetriedFatalKeepsSamples ==
    /\ [][ /\ PollStep =>
                /\ SamplesAndCounters' = SamplesAndCounters
                /\ IF err' # err
                   THEN pc' = "close" /\ err' = Append(err, "perror_poll")
                   ELSE pc' \in {"loop", "read"}
           /\ (ReadStep /\ delivered' = delivered) =>
                /\ SamplesAndCounters' = SamplesAndCounters
                /\ IF err' # err
                   THEN pc' = "close" /\ err' = Append(err, "perror_read")
                   ELSE pc' = "loop"
           /\ FatalIO =>
                /\ SamplesAndCounters' = SamplesAndCounters
                /\ pc' \in {"close", "report", "done"} ]_vars
    /\ []((LoopExited /\ FatalIO) =>
            /\ Len(out) >= 2
            /\ <<out[Len(out) - 1]>> =
                  (IF latencies_us = <<>> THEN <<NoData>>
                   ELSE << [kind |-> "stats", final |-> TRUE,
                            n |-> Len(latencies_us),
                            avg |-> Mean(latencies_us),
                            p50 |-> percentile(Sort(latencies_us), 50),
                            p95 |-> percentile(Sort(latencies_us), 95),
                            p99 |-> percentile(Sort(latencies_us), 99)] >>)
            /\ out[Len(out)].seen = total_events
            /\ out[Len(out)].measured = measured_events)

\* Two samples were collected in a run that is not quiet, a poll failed, and
\* main returned.
C17_Witness ==
    /\ LoopExited /\ ~quiet /\ "perror_poll" \in Range(err)
    /\ Len(latencies_us) = 2 /\ iter = 3

-----------------------------------------------------------------------------
(* C19 *)

\* C19: with a positive limit L a poll and a read happen only with fewer than
\* L samples held, a batch has at most 64 records and the i-th record of a
\* batch leaves at most L - 1 + i samples, so that the accumulator never holds
\* more than L - 1 + 64; when the loop condition ends the loop with no stop
\* signal, the accumulator holds at least L samples.  With limit 0 the loop
\* condition ends the loop only on the stop signal.  With a negative limit
\* poll is never called.
C19_LimitOvershootIsBounded ==
    /\ [](cnt <= BUF_EV)
    /\ [](limit > 0 =>
            /\ Len(latencies_us) <= limit - 1 + BUF_EV
            /\ pc \in {"poll", "read"} => Len(latencies_us) < limit
            /\ pc = "proc" => Len(latencies_us) <= limit - 1 + idx)
    /\ [][ (limit > 0 /\ pc = "proc") =>
              Len(latencies_us') <= limit - 1 + idx + 1 ]_vars
    /\ [][ (pc = "loop" /\ pc' = AfterLoop) =>
              /\ (limit > 0 /\ ~g_stop) => Len(latencies_us) >= limit
              /\ limit = 0 => g_stop ]_vars
    /\ [](limit < 0 => (iter = 0 /\ pc \notin {"poll", "read", "proc"}))

\* The limit is 1 and the loop ended on it with two samples: the batch that
\* was started with none held two records.
C19_Witness ==
    /\ limit = 1 /\ Len(latencies_us) = 2 /\ iter = 1 /\ ~g_stop
    /\ pc = "close"

-----------------------------------------------------------------------------
(* C14 *)

\* The sample q, a multiple of 1 ns given in usec, in nanoseconds
NsOf(q) == q.num * (1000 \div q.den)

NsOfAll(lat) == [k \in 1..Len(lat) |-> NsOf(lat[k])]

Occurrences(s, x) == Cardinality({k \in 1..Len(s) : s[k] = x})

IsPermutation(s, t) ==
    /\ Len(s) = Len(t)
    /\ \A x \in Range(s) \cup Range(t) : Occurrences(s, x) = Occurrences(t, x)

\* The samples of lat in ascending order, in nanoseconds
AscendingNs(lat) ==
    CHOOSE s \in [1..Len(lat) -> Range(NsOfAll(lat))] :
        /\ IsPermutation(s, NsOfAll(lat))
        /\ \A k \in 1..(Len(s) - 1) : s[k] <= s[k + 1]

RECURSIVE SumInts(_)
SumInts(s) == IF s = <<>> THEN 0 ELSE Head(s) + SumInts(Tail(s))

\* 100 times the linear interpolation, at the position (p/100)(n-1), of the
\* ascending samples s: i is the whole part of the position and f/100 its
\* fraction
Interpolated100(s, p) ==
    LET i == (p * (Len(s) - 1)) \div 100
        f == (p * (Len(s) - 1)) % 100
    IN  IF i + 1 < Len(s) THEN s[i + 1] * (100 - f) + s[i + 2] * f
        ELSE s[i + 1] * 100

\* The double d is the number n / (d1 d2) up to a relative error of 2^-48,
\* and is that number when a double is
IsDoubleOf(d, n, d1, d2) ==
    LET sh == IF d.e < 0 THEN 0 - d.e ELSE 0
        a == BShl(BMulSmall(BMulSmall(d.m, d1), d2), d.e + sh)
        b == BShl(BFromInt(n), sh)
        diff == IF BCmp(a, b) >= 0 THEN BSub(a, b) ELSE BSub(b, a)
    IN  BCmp(BShl(diff, 48), b) <= 0

Percentages == {0, 1, 25, 50, 75, 95, 99, 100}

SamplesOf(ns) == [k \in 1..Len(ns) |-> delta_us(ns[k], 0)]

\* C14: for a non-empty sample set the stats computation reports the number
\* of samples, sorts a copy of them ascending, reports their arithmetic mean,
\* and computes percentile(p) as the linear interpolation
\* sorted[i] (1 - frac) + sorted[i+1] frac at the position (p/100)(n-1),
\* clamped to the last element: exactly that in the arithmetic of the
\* rationals, that up to the rounding of double in binary64; percentile(0) is
\* the minimum and percentile(100) the maximum; the samples
\* [100, 200, 300, 400, 500] give average 300, p50 300, p0 100, p100 500, and
\* [10, 10, 10] gives average = p50 = p95 = p99 = 10.
C14_StatsAreMeanAndInterpolatedPercentiles ==
    latencies_us # <<>> =>
        LET n == Len(latencies_us)
            asc == AscendingNs(latencies_us)
            v == Sort64(Samples64(latencies_us))
        IN  /\ IsPermutation(v, Samples64(latencies_us))
            /\ \A k \in 1..(n - 1) : DLeq(v[k], v[k + 1])
            /\ NsOfAll(Sort(latencies_us)) = asc
            /\ \A p \in Percentages :
                  /\ percentile(Sort(latencies_us), p)
                        = Rat(Interpolated100(asc, p), 100000)
                  /\ IsDoubleOf(percentile64(v, p), Interpolated100(asc, p), 1000, 100)
            /\ percentile64(v, 0) = delta_us64(asc[1], 0)
            /\ percentile64(v, 100) = delta_us64(asc[n], 0)
            /\ \A k \in 1..Len(out) :
                  /\ out[k].kind = "stats"
                  /\ out[k].n = n
                  /\ IsDoubleOf(out[k].avg, SumInts(asc), 1000, n)
                  /\ IsDoubleOf(out[k].p50, Interpolated100(asc, 50), 1000, 100)
                  /\ IsDoubleOf(out[k].p95, Interpolated100(asc, 95), 1000, 100)
                  /\ IsDoubleOf(out[k].p99, Interpolated100(asc, 99), 1000, 100)
                  /\ latencies_us = SamplesOf(ScenarioA) =>
                        /\ out[k].avg = DFromInt(300)
                        /\ out[k].p50 = DFromInt(300)
                        /\ percentile64(v, 0) = DFromInt(100)
                        /\ percentile64(v, 100) = DFromInt(500)
                  /\ latencies_us = SamplesOf(ScenarioB) =>
                        /\ out[k].avg = DFromInt(10)
                        /\ out[k].p50 = DFromInt(10)
                        /\ out[k].p95 = DFromInt(10)
                        /\ out[k].p99 = DFromInt(10)

\* The statistics of [100, 200, 300, 400, 500] were computed: p99 is 496.
C14_Witness ==
    /\ latencies_us = SamplesOf(ScenarioA)
    /\ Len(out) = 1 /\ out[1].p99 = DFromInt(496) /\ out[1].avg = DFromInt(300)

-----------------------------------------------------------------------------
(* C15 *)

\* C15: over a sorted non-empty sample set, percentile(p1) <= percentile(p2)
\* for all p1 < p2 in [0, 100], every percentile lies between the minimum and
\* the maximum sample, and p50 <= p95 <= p99 in every report.
C15_PercentileIsMonotonic ==
    out # <<>> =>
        LET v == Sort64(Samples64(latencies_us))
            f == [p \in Percentages |-> percentile64(v, p)]
        IN  /\ \A p1, p2 \in Percentages : p1 < p2 => DLeq(f[p1], f[p2])
            /\ \A p \in Percentages : DLeq(v[1], f[p]) /\ DLeq(f[p], v[Len(v)])
            /\ \A k \in 1..Len(out) :
                  DLeq(out[k].p50, out[k].p95) /\ DLeq(out[k].p95, out[k].p99)

-----------------------------------------------------------------------------
(* C18 *)

StatsValues(r) == <<r.n, r.avg, r.p50, r.p95, r.p99>>

\* C18: an invocation of the stats computation changes neither the
\* accumulator nor the counters; the invocations on an unchanged sample set,
\* rolling or final, report the same count, average, p50, p95 and p99, and
\* differ in the flag only.
C18_StatsLeaveTheAccumulator ==
    /\ [][ out' # out =>
              /\ latencies_us' = latencies_us
              /\ total_events' = total_events
              /\ measured_events' = measured_events ]_vars
    /\ [](\A j, k \in 1..Len(out) : StatsValues(out[j]) = StatsValues(out[k]))
    /\ [](\A k \in 1..Len(out) :
            \E fl \in BOOLEAN : <<out[k]>> = print_stats64(fl, latencies_us))

\* The stats of the unsorted samples 3 and 1.5 usec were computed twice, as
\* a rolling and as a final summary, and the accumulator is as it was.
C18_Witness ==
    /\ latencies_us = SamplesOf(<<3000, 1500>>)
    /\ Len(out) = 2 /\ ~out[1].final /\ out[2].final
    /\ StatsValues(out[1]) = StatsValues(out[2])

-----------------------------------------------------------------------------
(* C13 *)

RollingReports(o) == {k \in 1..Len(o) : o[k].kind = "stats" /\ ~o[k].final}

Multiples(n) == {m \in 1..n : m % ROLLING_EVERY = 0}

\* C13: in a run that is not quiet, a step that makes measured-count a
\* positive multiple of 50 writes the line of the sample and, right after it,
\* one rolling summary over exactly measured-count samples, and no other step
\* writes a rolling summary, so that the rolling summaries written are one
\* for each multiple of 50 up to measured-count; in a quiet run no rolling
\* summary is ever written; when main has returned, the stats were computed
\* once more, as the final summary, after the rolling ones.
C13_RollingEveryFiftySamples ==
    /\ [][ IF ~quiet /\ measured_events' # measured_events
                     /\ measured_events' % ROLLING_EVERY = 0
           THEN /\ measured_events' > 0
                /\ Len(out') = Len(out) + 2
                /\ SubSeq(out', 1, Len(out)) = out
                /\ out'[Len(out) + 1].kind = "event"
                /\ out'[Len(out) + 2].kind = "stats"
                /\ ~out'[Len(out) + 2].final
                /\ out'[Len(out) + 2].n = measured_events'
                /\ <<out'[Len(out) + 2]>> = print_stats(FALSE, latencies_us')
           ELSE \A k \in (Len(out) + 1)..Len(out') :
                    ~(out'[k].kind = "stats" /\ ~out'[k].final) ]_vars
    /\ [](\E rolling \in {RollingReports(out)} :
            IF quiet THEN rolling = {}
            ELSE /\ {out[k].n : k \in rolling} = Multiples(measured_events)
                 /\ Cardinality(rolling) = Cardinality(Multiples(measured_events)))
    /\ []((LoopExited /\ latencies_us # <<>>) =>
            /\ Cardinality(FinalReports) = 1
            /\ \A k \in FinalReports :
                 /\ out[k].n = measured_events
                 /\ \A j \in RollingReports(out) : j < k)

\* A run that is not quiet measured its 100th sample and returned: two
\* rolling summaries, over 50 and over 100 samples, and the final one.
C13_Witness ==
    /\ LoopExited /\ ~quiet /\ measured_events = 2 * ROLLING_EVERY
    /\ Cardinality(RollingReports(out)) = 2
    /\ out[Len(out) - 2].kind = "stats" /\ ~out[Len(out) - 2].final
    /\ out[Len(out) - 2].n = 2 * ROLLING_EVERY
    /\ out[Len(out) - 1].final

-----------------------------------------------------------------------------
(* C11 *)

HasQuietArg(a) == Len(a) > 2 /\ a[Len(a)] = QUIET

QuietRun == IF HasQuietArg(argv) THEN RunState ELSE twin.other

LoudRun == IF HasQuietArg(argv) THEN twin.other ELSE RunState

\* Both runs have taken the same inputs
Synced == twin.turn = "lead"

\* What the claim lets the two runs reach alike
SharedState(r) ==
    <<r.pc, r.exit, r.limit, r.fd, r.closeCalls, r.g_stop, r.revents, r.cnt,
      r.idx, r.ev, r.now_ns, r.latencies_us, r.total_events,
      r.measured_events, r.iter, r.delivered>>

IsBanner(r) == r.kind \in {"device", "collecting"}

IsPerEventRollingOrIdle(r) ==
    r.kind \in {"event", "idle"} \/ (r.kind = "stats" /\ ~r.final)

WithoutPerEventRollingIdle(o) ==
    SelectSeq(o, LAMBDA r : ~IsPerEventRollingOrIdle(r))

WithoutBannerPerEventRollingIdle(o) ==
    SelectSeq(o, LAMBDA r : ~IsPerEventRollingOrIdle(r) /\ ~IsBanner(r))

WithoutClockWarning(e) == SelectSeq(e, LAMBDA m : m # "warn_clock")

\* The two runs stand at the same point with the same state
SameRun ==
    /\ twin.turn = "follow" => pc = twin.at
    /\ Synced =>
         /\ SharedState(QuietRun) = SharedState(LoudRun)
         /\ pc # "main" /\ exit # "abort" => QuietRun.quiet /\ ~LoudRun.quiet
         /\ QuietRun.err = WithoutClockWarning(LoudRun.err)

\* C11 as stated: of two runs on the same inputs, one with --quiet and one
\* without, each step leaves the same accumulator, counters, stop flag and
\* position of main, so that they stop at the same point, and the output of
\* the quiet run is that of the other run without its per-event lines,
\* rolling summaries and idle notices, and without the clock warning on
\* standard error; the final summary or no-data notice and the totals line
\* are the same.
C11_QuietAffectsListedOutputOnly ==
    /\ SameRun
    /\ Synced => QuietRun.out = WithoutPerEventRollingIdle(LoudRun.out)

\* C11, amended: the same, where the output of the quiet run is that of the
\* other run without its start-up banner (the device line and the
\* "Collecting input events" line), per-event lines, rolling summaries and
\* idle notices.
C11_QuietAffectsOutputOnly ==
    /\ SameRun
    /\ Synced => QuietRun.out = WithoutBannerPerEventRollingIdle(LoudRun.out)

\* Both runs returned after a sample was taken, with an idle notice, a
\* per-event line and the clock warning in the run that is not quiet and
\* only the final summary and the totals line in the quiet one.
C11_Witness ==
    /\ Synced /\ pc = "done" /\ exit = "exit0"
    /\ twin.other.pc = "done"
    /\ latencies_us # <<>>
    /\ "warn_clock" \in Range(LoudRun.err)
    /\ \E k \in 1..Len(LoudRun.out) : LoudRun.out[k].kind = "idle"
    /\ \E k \in 1..Len(LoudRun.out) : LoudRun.out[k].kind = "event"
    /\ Len(QuietRun.out) = 2
    /\ QuietRun.out[1].kind = "stats" /\ QuietRun.out[1].final
    /\ QuietRun.out[2].kind = "totals"
    /\ QuietRun.err = <<>>

=============================================================================
